---- MODULE Spec2Model ----
(***************************************************************************)
(* The vm slice of the debugger store (src/store/vmSlice.ts): the state    *)
(* record, its nineteen case reducers and its selectors.                   *)
(*                                                                         *)
(* A JavaScript object is a function from its keys to its values: a key    *)
(* the object lacks is a key outside DOMAIN, and reading it yields         *)
(* undefined.  Reading a property of undefined throws a TypeError; a       *)
(* reducer that throws leaves the store's state as it was (the store       *)
(* assigns the reducer's result only when the reducer returns).            *)
(***************************************************************************)
EXTENDS Integers, Sequences, FiniteSets, TLC

VARIABLES
  state,  \* the store's current VMSliceState
  prev,   \* the state the last operation was applied to
  last,   \* the operation of this turn: <<type, payload>>
  ret,    \* the outcome of this turn's operation
  log,    \* the member-subscribed / member-unsubscribed events so far, in order
  fetches \* the value fetches in flight at the VM and the stale cache entries

vars == <<state, prev, last, ret, log, fetches>>

----------------------------------------------------------------------------
(* Bounds of the model and the payload domains drawn from them.            *)

MaxSnapshot == 2
MaxChannel == 2
MaxTimer == 3
MaxLog == 4
MaxList == 2
MaxSession == 3

CastNumbers == {1, 2}
MemberNumbers == {1, 2}
MemberNames == {"n1"}
Snapshots == {"s" \o ToString(i) : i \in 1..MaxSnapshot}
ChannelNumbers == 1..MaxChannel
DisplayNames == {"X", "Y"}
TokenIds == {"a", "b", "c"}
ScriptNames == {"", "foo", "bar"}
TimerNames == {"t" \o ToString(i) : i \in 1..MaxTimer}
TimerHandles == {"h1", "h2"}
DatumRefs == {"d1", "d2"}
Datums == {"v1", "v2"}
ScopeIds == {"sc1", "sc2"}
ScoreSnapshots == {"score1"}
Frames == {1, 2}
ErrorMessages == {"e1", "e2"}
GlobalNames == {"g1"}
ScriptInstanceIds == {"i1", "i2"}

----------------------------------------------------------------------------
(* JavaScript values.                                                      *)

Undefined == "undefined"

\* {}: the object with no key
EmptyObj == [k \in {} |-> Undefined]

\* { ...o, [k]: v }
Put(o, k, v) == [x \in (DOMAIN o) \cup {k} |-> IF x = k THEN v ELSE o[x]]

\* { ...o } with key k deleted (delete of a missing key changes nothing)
Delete(o, k) == [x \in (DOMAIN o) \ {k} |-> o[x]]

\* o[k] as the operand of a spread: ...undefined spreads no key
SpreadAt(o, k) == IF k \in DOMAIN o THEN o[k] ELSE EmptyObj

\* the outcome of an operation: a selector's returned value, a thrown
\* TypeError, a reducer's result taken by the store, or none yet
Return(v) == [value |-> v]
TypeError == [thrown |-> "TypeError"]
Dispatched == [dispatched |-> TRUE]
NoOutcome == [none |-> TRUE]

\* !v for a string or undefined
Falsy(v) == v = Undefined \/ v = ""

----------------------------------------------------------------------------
(* The initial state.                                                      *)

initialState ==
  [ castNames |-> <<>>,
    castSnapshots |-> EmptyObj,
    scoreSnapshot |-> Undefined,
    currentFrame |-> 1,
    scopes |-> <<>>,
    scriptError |-> Undefined,
    breakpoints |-> <<>>,
    globals |-> EmptyObj,
    timeoutHandles |-> EmptyObj,
    datumSnapshots |-> EmptyObj,
    scriptInstanceSnapshots |-> EmptyObj,
    channelSnapshots |-> EmptyObj,
    subscribedMemberTokens |-> <<>>,
    isMovieLoaded |-> FALSE ]

----------------------------------------------------------------------------
(* The case reducers: each maps (state, action.payload) to the next state, *)
(* or to TypeError where the code reads a property of undefined.           *)

castListChanged(s, payload) ==
  [s EXCEPT !.castNames = payload]

\* castMemberListChanged without the spread of the other libraries
castMemberListChanged_NoSpread(s, payload) ==
  [s EXCEPT !.castSnapshots =
     Put(EmptyObj, payload.castNumber,
         [number |-> payload.castNumber, members |-> payload.members])]

\* castMemberListChanged that merges the payload into the library's members
castMemberListChanged_Merge(s, payload) ==
  LET old == SpreadAt(s.castSnapshots, payload.castNumber)
      kept == IF "members" \in DOMAIN old THEN old.members ELSE EmptyObj
      merged == [m \in (DOMAIN kept) \cup (DOMAIN payload.members) |->
                   IF m \in DOMAIN payload.members THEN payload.members[m]
                   ELSE kept[m]]
  IN  [s EXCEPT !.castSnapshots =
         Put(@, payload.castNumber,
             [number |-> payload.castNumber, members |-> merged])]

castMemberListChanged(s, payload) ==
  [s EXCEPT !.castSnapshots =
     Put(@, payload.castNumber,
         [number |-> payload.castNumber, members |-> payload.members])]

\* castMemberChanged without the spread of the member's entry
castMemberChanged_NoEntrySpread(s, payload) ==
  LET castLibNum == payload.memberRef[1]
      memberNum == payload.memberRef[2]
  IN  IF castLibNum \notin DOMAIN s.castSnapshots
      THEN TypeError
      ELSE LET lib == s.castSnapshots[castLibNum]
               entry == Put(EmptyObj, "snapshot", payload.snapshot)
           IN  [s EXCEPT !.castSnapshots =
                  Put(@, castLibNum,
                      Put(lib, "members", Put(lib.members, memberNum, entry)))]

castMemberChanged(s, payload) ==
  LET castLibNum == payload.memberRef[1]
      memberNum == payload.memberRef[2]
  IN  IF castLibNum \notin DOMAIN s.castSnapshots
      THEN TypeError  \* s.castSnapshots[castLibNum].members reads undefined
      ELSE LET lib == s.castSnapshots[castLibNum]
               entry == Put(SpreadAt(lib.members, memberNum),
                            "snapshot", payload.snapshot)
           IN  [s EXCEPT !.castSnapshots =
                  Put(@, castLibNum,
                      Put(lib, "members", Put(lib.members, memberNum, entry)))]

scoreChanged(s, payload) ==
  [s EXCEPT !.scoreSnapshot = payload]

frameChanged(s, payload) ==
  [s EXCEPT !.currentFrame = payload]

\* scopeListChanged that also drops the script error of the old stack
scopeListChanged_ClearsError(s, payload) ==
  [s EXCEPT !.scopes = payload, !.datumSnapshots = EmptyObj,
            !.scriptError = Undefined]

\* scopeListChanged that also empties the script-instance cache
scopeListChanged_ClearsInstances(s, payload) ==
  [s EXCEPT !.scopes = payload, !.datumSnapshots = EmptyObj,
            !.scriptInstanceSnapshots = EmptyObj]

\* scopeListChanged that keeps the cached datums
scopeListChanged_KeepsCache(s, payload) ==
  [s EXCEPT !.scopes = payload]

scopeListChanged(s, payload) ==
  [s EXCEPT !.scopes = payload, !.datumSnapshots = EmptyObj]

onScriptError(s, payload) ==
  [s EXCEPT !.scriptError = payload]

scriptErrorCleared(s) ==
  [s EXCEPT !.scriptError = Undefined]

breakpointListChanged(s, payload) ==
  [s EXCEPT !.breakpoints = payload]

globalsChanged(s, payload) ==
  [s EXCEPT !.globals = payload]

setTimeoutHandle(s, payload) ==
  [s EXCEPT !.timeoutHandles = Put(@, payload.name, payload.handle)]

\* removeTimeoutHandle that drops every handle
removeTimeoutHandle_Clear(s, payload) ==
  [s EXCEPT !.timeoutHandles = EmptyObj]

removeTimeoutHandle(s, payload) ==
  LET newHandles == Delete(s.timeoutHandles, payload)
  IN  [s EXCEPT !.timeoutHandles = newHandles]

datumSnapshot(s, payload) ==
  [s EXCEPT !.datumSnapshots = Put(@, payload.datumRef, payload.datum)]

scriptInstanceSnapshot(s, payload) ==
  [s EXCEPT !.scriptInstanceSnapshots =
     Put(@, payload.scriptInstanceId, payload.datum)]

channelChanged(s, payload) ==
  [s EXCEPT !.channelSnapshots =
     Put(@, payload.channelNumber, payload.channelData)]

\* channelDisplayNameChanged that ignores a channel with no entry
channelDisplayNameChanged_IgnoresUnknown(s, payload) ==
  IF payload.channelNumber \notin DOMAIN s.channelSnapshots THEN s
  ELSE [s EXCEPT !.channelSnapshots =
          Put(@, payload.channelNumber,
              Put(s.channelSnapshots[payload.channelNumber],
                  "displayName", payload.displayName))]

\* channelDisplayNameChanged without the spread of the channel's entry
channelDisplayNameChanged_NoSpread(s, payload) ==
  [s EXCEPT !.channelSnapshots =
     Put(@, payload.channelNumber,
         Put(EmptyObj, "displayName", payload.displayName))]

channelDisplayNameChanged(s, payload) ==
  [s EXCEPT !.channelSnapshots =
     Put(@, payload.channelNumber,
         Put(SpreadAt(s.channelSnapshots, payload.channelNumber),
             "displayName", payload.displayName))]

\* memberSubscribed that keeps one record per member
memberSubscribed_OnePerMember(s, payload) ==
  LET other(t) == t.memberRef # payload.memberRef
  IN  [s EXCEPT !.subscribedMemberTokens = Append(SelectSeq(@, other), payload)]

memberSubscribed(s, payload) ==
  [s EXCEPT !.subscribedMemberTokens = Append(@, payload)]

\* memberUnsubscribed that drops the newest record when no id matches
memberUnsubscribed_DropsNewest(s, payload) ==
  LET keep(t) == t.id # payload
      kept == SelectSeq(s.subscribedMemberTokens, keep)
  IN  [s EXCEPT !.subscribedMemberTokens =
         IF kept = @ /\ @ # <<>> THEN SubSeq(@, 1, Len(@) - 1) ELSE kept]

memberUnsubscribed(s, payload) ==
  LET keep(t) == t.id # payload
  IN  [s EXCEPT !.subscribedMemberTokens = SelectSeq(@, keep)]

\* movieLoaded that flips the flag
movieLoaded_Toggle(s) ==
  [s EXCEPT !.isMovieLoaded = ~@]

movieLoaded(s) ==
  [s EXCEPT !.isMovieLoaded = TRUE]

----------------------------------------------------------------------------
(* The selectors.                                                          *)

\* selectMemberSnapshot without the ?. on the member's entry
selectMemberSnapshot_NoOptionalChain(s, castNumber, memberNumber) ==
  IF castNumber \notin DOMAIN s.castSnapshots
  THEN TypeError
  ELSE LET members == s.castSnapshots[castNumber].members
       IN  IF memberNumber \notin DOMAIN members THEN TypeError
           ELSE IF "snapshot" \in DOMAIN members[memberNumber]
           THEN Return(members[memberNumber].snapshot)
           ELSE Return(Undefined)

selectMemberSnapshot(s, castNumber, memberNumber) ==
  IF castNumber \notin DOMAIN s.castSnapshots
  THEN TypeError  \* selectCastSnapshot(...) is undefined, .members throws
  ELSE LET members == s.castSnapshots[castNumber].members
       IN  IF memberNumber \in DOMAIN members
              /\ "snapshot" \in DOMAIN members[memberNumber]
           THEN Return(members[memberNumber].snapshot)
           ELSE Return(Undefined)

selectMemberSnapshotById(s, id) ==
  selectMemberSnapshot(s, id.castNumber, id.memberNumber)

\* selectCurrentScope that reads the other end of the stack: scopes.at(0)
selectCurrentScope_First(s) ==
  IF Len(s.scopes) = 0 THEN Return(Undefined)
  ELSE Return(s.scopes[1])

selectCurrentScope(s) ==
  IF Len(s.scopes) = 0 THEN Return(Undefined)
  ELSE Return(s.scopes[Len(s.scopes)])

selectBreakpoints(s, scriptName) ==
  LET keep(b) == Falsy(scriptName) \/ b.script_name = scriptName
  IN  Return(SelectSeq(s.breakpoints, keep))

----------------------------------------------------------------------------
(* The store.  Ingestion is single-threaded: one operation runs per turn.  *)
(* A turn applies one reducer to the current state (dispatch) or reads the *)
(* current state through a selector; prev, last and ret record the turn    *)
(* until it ends.                                                          *)

Idle == <<"idle", Undefined>>

lastType == last[1]
lastPayload == last[2]

\* no value fetch is in flight and no cached value is stale
NoFetches == [pending |-> {}, stale |-> {}]

Init ==
  /\ state = initialState
  /\ prev = initialState
  /\ last = Idle
  /\ ret = NoOutcome
  /\ log = <<>>
  /\ fetches = NoFetches

Dispatch(type, payload, result) ==
  /\ lastType = "idle"
  /\ prev' = state
  /\ last' = <<type, payload>>
  /\ IF result = TypeError
     THEN state' = state /\ ret' = TypeError
     ELSE state' = result /\ ret' = Dispatched

Select(type, payload, result) ==
  /\ lastType = "idle"
  /\ prev' = state
  /\ last' = <<type, payload>>
  /\ state' = state
  /\ ret' = result

TurnEnds ==
  /\ lastType # "idle"
  /\ prev' = state
  /\ last' = Idle
  /\ ret' = NoOutcome
  /\ UNCHANGED <<state, log, fetches>>

CastListChanged(p) ==
  Dispatch("castListChanged", p, castListChanged(state, p)) /\ UNCHANGED <<log, fetches>>

CastMemberListChanged(p) ==
  Dispatch("castMemberListChanged", p, castMemberListChanged(state, p))
  /\ UNCHANGED <<log, fetches>>

CastMemberChanged(p) ==
  Dispatch("castMemberChanged", p, castMemberChanged(state, p))
  /\ UNCHANGED <<log, fetches>>

SelectMemberSnapshot(castNumber, memberNumber) ==
  Select("selectMemberSnapshot", <<castNumber, memberNumber>>,
         selectMemberSnapshot(state, castNumber, memberNumber))
  /\ UNCHANGED <<log, fetches>>

SelectMemberSnapshotById(id) ==
  Select("selectMemberSnapshotById", id, selectMemberSnapshotById(state, id))
  /\ UNCHANGED <<log, fetches>>

\* a new scope generation starts: the fetches in flight, and whatever the
\* cache still holds, now carry references of an earlier generation
ScoreChanged(p) ==
  Dispatch("scoreChanged", p, scoreChanged(state, p))
  /\ UNCHANGED <<log, fetches>>

FrameChanged(p) ==
  Dispatch("frameChanged", p, frameChanged(state, p))
  /\ UNCHANGED <<log, fetches>>

OnScriptError(p) ==
  Dispatch("onScriptError", p, onScriptError(state, p))
  /\ UNCHANGED <<log, fetches>>

ScriptErrorCleared ==
  Dispatch("scriptErrorCleared", Undefined, scriptErrorCleared(state))
  /\ UNCHANGED <<log, fetches>>

GlobalsChanged(p) ==
  Dispatch("globalsChanged", p, globalsChanged(state, p))
  /\ UNCHANGED <<log, fetches>>

ScriptInstanceSnapshot(p) ==
  Dispatch("scriptInstanceSnapshot", p, scriptInstanceSnapshot(state, p))
  /\ UNCHANGED <<log, fetches>>

MovieLoaded ==
  Dispatch("movieLoaded", Undefined, movieLoaded(state))
  /\ UNCHANGED <<log, fetches>>

ScopeListChanged(p) ==
  /\ Dispatch("scopeListChanged", p, scopeListChanged(state, p))
  /\ fetches' = [pending |-> {[r EXCEPT !.generation = "earlier"] :
                                r \in fetches.pending},
                 stale |-> DOMAIN state'.datumSnapshots]
  /\ UNCHANGED log

BreakpointListChanged(p) ==
  Dispatch("breakpointListChanged", p, breakpointListChanged(state, p))
  /\ UNCHANGED <<log, fetches>>

SetTimeoutHandle(p) ==
  Dispatch("setTimeoutHandle", p, setTimeoutHandle(state, p))
  /\ UNCHANGED <<log, fetches>>

RemoveTimeoutHandle(p) ==
  Dispatch("removeTimeoutHandle", p, removeTimeoutHandle(state, p))
  /\ UNCHANGED <<log, fetches>>

\* a value requested and answered within the current scope generation
DatumSnapshot(p) ==
  /\ Dispatch("datumSnapshot", p, datumSnapshot(state, p))
  /\ fetches' = [fetches EXCEPT !.stale = @ \ {p.datumRef}]
  /\ UNCHANGED log

\* the UI asks the VM for the value behind a reference of the current scope
\* generation; the core is not involved until the answer arrives
RequestDatum(ref) ==
  /\ lastType = "idle"
  /\ [datumRef |-> ref, generation |-> "current"] \notin fetches.pending
  /\ fetches' = [fetches EXCEPT !.pending =
                   @ \cup {[datumRef |-> ref, generation |-> "current"]}]
  /\ UNCHANGED <<state, prev, last, ret, log>>

\* the VM's answer to the fetch r in flight arrives as an ordinary
\* datum-snapshot event
DeliverDatum(r, datum) ==
  /\ r \in fetches.pending
  /\ Dispatch("datumSnapshot", [datumRef |-> r.datumRef, datum |-> datum],
              datumSnapshot(state, [datumRef |-> r.datumRef, datum |-> datum]))
  /\ fetches' = [pending |-> fetches.pending \ {r},
                 stale |-> IF r.generation = "earlier"
                           THEN fetches.stale \cup {r.datumRef}
                           ELSE fetches.stale \ {r.datumRef}]
  /\ UNCHANGED log

ChannelChanged(p) ==
  Dispatch("channelChanged", p, channelChanged(state, p))
  /\ UNCHANGED <<log, fetches>>

ChannelDisplayNameChanged(p) ==
  Dispatch("channelDisplayNameChanged", p, channelDisplayNameChanged(state, p))
  /\ UNCHANGED <<log, fetches>>

MemberSubscribed(p) ==
  /\ Len(log) < MaxLog
  /\ Dispatch("memberSubscribed", p, memberSubscribed(state, p))
  /\ log' = Append(log, <<"memberSubscribed", p>>)
  /\ UNCHANGED fetches

MemberUnsubscribed(p) ==
  /\ Len(log) < MaxLog
  /\ Dispatch("memberUnsubscribed", p, memberUnsubscribed(state, p))
  /\ log' = Append(log, <<"memberUnsubscribed", p>>)
  /\ UNCHANGED fetches

SelectCurrentScope ==
  /\ Select("selectCurrentScope", Undefined, selectCurrentScope(state))
  /\ UNCHANGED <<log, fetches>>

SelectBreakpoints(scriptName) ==
  Select("selectBreakpoints", scriptName, selectBreakpoints(state, scriptName))
  /\ UNCHANGED <<log, fetches>>

----------------------------------------------------------------------------
(* The cast events and the member selectors.                               *)

CastNameLists == {<<>>, <<"Internal">>}

MemberEntries ==
  [name : MemberNames] \cup [name : MemberNames, snapshot : Snapshots]
MemberMaps == UNION {[D -> MemberEntries] : D \in SUBSET MemberNumbers}
CastMemberListPayloads == [castNumber : CastNumbers, members : MemberMaps]
CastMemberPayloads ==
  [memberRef : CastNumbers \X MemberNumbers, snapshot : Snapshots]
MemberIds == [castNumber : CastNumbers, memberNumber : MemberNumbers]

NextCast ==
  \/ \E p \in CastNameLists : CastListChanged(p)
  \/ \E p \in CastMemberListPayloads : CastMemberListChanged(p)
  \/ \E p \in CastMemberPayloads : CastMemberChanged(p)
  \/ \E c \in CastNumbers, m \in MemberNumbers : SelectMemberSnapshot(c, m)
  \/ \E id \in MemberIds : SelectMemberSnapshotById(id)
  \/ TurnEnds

SpecCast == Init /\ [][NextCast]_vars

\* the fields of the state other than f are as they were before the turn
OtherFieldsKept(f) == \A g \in (DOMAIN state) \ {f} : state[g] = prev[g]

\* the cast number a member selector was called with in this turn
SelectedCast ==
  IF lastType = "selectMemberSnapshot" THEN lastPayload[1]
  ELSE lastPayload.castNumber

\* C2: member-by-identifier with a cast number that has no entry in
\* castSnapshots returns absent, raises no fault and leaves the snapshot
\* unchanged.
C2_UnseenCastIsAbsent ==
  (/\ lastType \in {"selectMemberSnapshot", "selectMemberSnapshotById"}
   /\ SelectedCast \notin DOMAIN prev.castSnapshots)
  => (ret = Return(Undefined) /\ state = prev)

\* C3: cast-member-changed whose memberRef names a library with no entry in
\* castSnapshots leaves the state as it was and does not fault.
C3_UnknownLibraryRejected ==
  (/\ lastType = "castMemberChanged"
   /\ lastPayload.memberRef[1] \notin DOMAIN prev.castSnapshots)
  => (state = prev /\ ret # TypeError)

\* C4: cast-member-changed for an existing library and a member number with
\* no entry in it leaves the key set of that library's member mapping as it
\* was.
C4_NoImplicitMember ==
  (/\ lastType = "castMemberChanged"
   /\ ret # TypeError
   /\ lastPayload.memberRef[1] \in DOMAIN prev.castSnapshots
   /\ lastPayload.memberRef[2] \notin
        DOMAIN prev.castSnapshots[lastPayload.memberRef[1]].members)
  => DOMAIN state.castSnapshots[lastPayload.memberRef[1]].members
       = DOMAIN prev.castSnapshots[lastPayload.memberRef[1]].members

\* C7: cast-member-list-changed for library L leaves the entry of every
\* other library, and every state field other than castSnapshots, as it was.
C7_OtherLibrariesKept ==
  lastType = "castMemberListChanged"
  => /\ (DOMAIN state.castSnapshots) \ {lastPayload.castNumber}
          = (DOMAIN prev.castSnapshots) \ {lastPayload.castNumber}
     /\ \A L2 \in (DOMAIN prev.castSnapshots) \ {lastPayload.castNumber} :
          state.castSnapshots[L2] = prev.castSnapshots[L2]
     /\ OtherFieldsKept("castSnapshots")

\* C7's case: the list of one library is replaced while another library
\* holds members with detailed snapshots, and cast names are set.
C7_Witness ==
  /\ lastType = "castMemberListChanged"
  /\ state # prev
  /\ prev.castNames # <<>>
  /\ \E L2 \in (DOMAIN prev.castSnapshots) \ {lastPayload.castNumber} :
       \E m \in DOMAIN prev.castSnapshots[L2].members :
         "snapshot" \in DOMAIN prev.castSnapshots[L2].members[m]

\* the member number a member selector was called with in this turn
SelectedMember ==
  IF lastType = "selectMemberSnapshot" THEN lastPayload[2]
  ELSE lastPayload.memberNumber

\* C13: member-by-identifier for a cast number that has an entry and a
\* member number with no entry in that cast's member mapping returns absent,
\* raises no fault and leaves the snapshot unchanged.
C13_UnseenMemberIsAbsent ==
  (/\ lastType \in {"selectMemberSnapshot", "selectMemberSnapshotById"}
   /\ SelectedCast \in DOMAIN prev.castSnapshots
   /\ SelectedMember \notin DOMAIN prev.castSnapshots[SelectedCast].members)
  => (ret = Return(Undefined) /\ state = prev)

\* C13's case: the selector is called for a missing member of a cast that
\* holds another member with a detailed snapshot.
C13_Witness ==
  /\ lastType = "selectMemberSnapshot"
  /\ SelectedCast \in DOMAIN prev.castSnapshots
  /\ SelectedMember \notin DOMAIN prev.castSnapshots[SelectedCast].members
  /\ \E m \in DOMAIN prev.castSnapshots[SelectedCast].members :
       "snapshot" \in DOMAIN prev.castSnapshots[SelectedCast].members[m]
  /\ ret = Return(Undefined)

\* C17: cast-member-list-changed for library L replaces the whole member
\* mapping of L: afterwards the entry of L has number L and its members are
\* exactly the payload mapping.
C17_MemberListReplaced ==
  lastType = "castMemberListChanged"
  => /\ lastPayload.castNumber \in DOMAIN state.castSnapshots
     /\ state.castSnapshots[lastPayload.castNumber].number
          = lastPayload.castNumber
     /\ state.castSnapshots[lastPayload.castNumber].members
          = lastPayload.members
     /\ DOMAIN state.castSnapshots[lastPayload.castNumber]
          = {"number", "members"}
     /\ ret = Dispatched

\* C17's case: library L held a member whose entry came from
\* cast-member-changed alone (it carries only a snapshot), and the payload
\* lacks that member.
C17_Witness ==
  /\ lastType = "castMemberListChanged"
  /\ lastPayload.castNumber \in DOMAIN prev.castSnapshots
  /\ \E m \in DOMAIN prev.castSnapshots[lastPayload.castNumber].members :
       /\ DOMAIN prev.castSnapshots[lastPayload.castNumber].members[m]
            = {"snapshot"}
       /\ m \notin DOMAIN lastPayload.members
       /\ m \notin DOMAIN state.castSnapshots[lastPayload.castNumber].members
  /\ lastPayload.members # EmptyObj

\* C18: cast-member-changed for a library and member that both exist sets
\* only the snapshot field of that member's entry to the payload: the other
\* fields of the entry, the other members, the library's number, the other
\* libraries and the other state fields are unchanged.
C18_OnlySnapshotChanges ==
  (/\ lastType = "castMemberChanged"
   /\ lastPayload.memberRef[1] \in DOMAIN prev.castSnapshots
   /\ lastPayload.memberRef[2] \in
        DOMAIN prev.castSnapshots[lastPayload.memberRef[1]].members)
  => LET L == lastPayload.memberRef[1]
         n == lastPayload.memberRef[2]
         oldLib == prev.castSnapshots[L]
         newLib == state.castSnapshots[L]
     IN  /\ ret = Dispatched
         /\ DOMAIN state.castSnapshots = DOMAIN prev.castSnapshots
         /\ \A L2 \in (DOMAIN prev.castSnapshots) \ {L} :
              state.castSnapshots[L2] = prev.castSnapshots[L2]
         /\ DOMAIN newLib = DOMAIN oldLib
         /\ newLib.number = oldLib.number
         /\ DOMAIN newLib.members = DOMAIN oldLib.members
         /\ \A m \in (DOMAIN oldLib.members) \ {n} :
              newLib.members[m] = oldLib.members[m]
         /\ DOMAIN newLib.members[n]
              = (DOMAIN oldLib.members[n]) \cup {"snapshot"}
         /\ newLib.members[n].snapshot = lastPayload.snapshot
         /\ \A f \in (DOMAIN oldLib.members[n]) \ {"snapshot"} :
              newLib.members[n][f] = oldLib.members[n][f]
         /\ OtherFieldsKept("castSnapshots")

\* C18's case: the snapshot of an existing member with a name and another
\* snapshot is replaced while a second member and a second library exist.
C18_Witness ==
  /\ lastType = "castMemberChanged"
  /\ DOMAIN prev.castSnapshots = CastNumbers
  /\ lastPayload.memberRef[1] \in DOMAIN prev.castSnapshots
  /\ DOMAIN prev.castSnapshots[lastPayload.memberRef[1]].members
       = MemberNumbers
  /\ LET old == prev.castSnapshots[lastPayload.memberRef[1]]
                   .members[lastPayload.memberRef[2]]
     IN  /\ DOMAIN old = {"name", "snapshot"}
         /\ old.snapshot # lastPayload.snapshot
  /\ state # prev

----------------------------------------------------------------------------
(* The scope stack and the datum cache.                                    *)

ScopeLists == UNION {[1..n -> ScopeIds] : n \in 0..MaxList}
DatumPayloads == [datumRef : DatumRefs, datum : Datums]

NextScope ==
  \/ \E p \in ScopeLists : ScopeListChanged(p)
  \/ \E p \in DatumPayloads : DatumSnapshot(p)
  \/ SelectCurrentScope
  \/ TurnEnds

SpecScope == Init /\ [][NextScope]_vars

\* C1: scope-list-changed yields an empty datum-snapshot cache and a scope
\* stack equal to the payload, whatever the cache held before.
C1_ScopeChangeEmptiesCache ==
  lastType = "scopeListChanged"
  => /\ state.datumSnapshots = EmptyObj
     /\ state.scopes = lastPayload
     /\ ret = Dispatched

\* C1's case: the scope stack is replaced while the cache holds datums.
C1_Witness ==
  /\ lastType = "scopeListChanged"
  /\ DOMAIN prev.datumSnapshots = DatumRefs
  /\ prev.scopes # <<>>
  /\ lastPayload # prev.scopes
  /\ state.datumSnapshots = EmptyObj

\* C14: the current-scope projection returns the last element of scopes
\* when scopes is non-empty and absent when it is empty, in every reachable
\* state, the initial one included, and changes nothing.
C14_CurrentScopeIsLast ==
  lastType = "selectCurrentScope"
  => /\ state = prev
     /\ Len(prev.scopes) = 0 => ret = Return(Undefined)
     /\ Len(prev.scopes) > 0 => ret = Return(prev.scopes[Len(prev.scopes)])

\* C14's case: the projection is taken of a stack whose top differs from
\* its bottom.
C14_Witness ==
  /\ lastType = "selectCurrentScope"
  /\ Len(prev.scopes) > 1
  /\ prev.scopes[1] # prev.scopes[Len(prev.scopes)]
  /\ ret = Return(prev.scopes[Len(prev.scopes)])

----------------------------------------------------------------------------
(* Value fetches in flight across a change of the scope stack.             *)

Fetches == [datumRef : DatumRefs, generation : {"current", "earlier"}]

NextFetch ==
  \/ \E ref \in DatumRefs : RequestDatum(ref)
  \/ \E r \in Fetches, d \in Datums : DeliverDatum(r, d)
  \/ \E p \in ScopeLists : ScopeListChanged(p)
  \/ TurnEnds

SpecFetch == Init /\ [][NextFetch]_vars

\* C15: in every reachable state the datum-snapshot cache holds no value
\* for a reference of an earlier scope generation than the current scope
\* stack, also when the answer to a fetch requested before a
\* scope-list-changed is delivered as a datum-snapshot event after it.
C15_NoStaleDatum ==
  \A ref \in DOMAIN state.datumSnapshots : ref \notin fetches.stale

----------------------------------------------------------------------------
(* The breakpoint list and its selector.                                   *)

Breakpoints == [script_name : ScriptNames, line : {1, 2}]
BreakpointLists == UNION {[1..n -> Breakpoints] : n \in 0..MaxList}

NextBreakpoints ==
  \/ \E p \in BreakpointLists : BreakpointListChanged(p)
  \/ \E n \in ScriptNames \cup {Undefined} : SelectBreakpoints(n)
  \/ TurnEnds

SpecBreakpoints == Init /\ [][NextBreakpoints]_vars

\* the breakpoints of list bs whose script_name is n, in list order
WithScriptName(bs, n) ==
  LET named(b) == b.script_name = n IN SelectSeq(bs, named)

\* C5: breakpoints-for-script with a name n returns exactly the breakpoints
\* whose script_name equals n, in list order, for every string n including
\* the empty string; with no name it returns the full list in order.
C5_FilterByName ==
  lastType = "selectBreakpoints"
  => ret = Return(IF lastPayload = Undefined THEN prev.breakpoints
                  ELSE WithScriptName(prev.breakpoints, lastPayload))

----------------------------------------------------------------------------
(* The subscription ledger.                                                *)

MemberRefs == [castNumber : {1}, memberNumber : MemberNumbers]
Subscriptions == [memberRef : MemberRefs, id : TokenIds]

NextLedger ==
  \/ \E p \in Subscriptions : MemberSubscribed(p)
  \/ \E id \in TokenIds : MemberUnsubscribed(id)
  \/ TurnEnds

SpecLedger == Init /\ [][NextLedger]_vars

\* at least one record of the ledger references member m
OfInterest(m) ==
  \E k \in 1..Len(state.subscribedMemberTokens) :
    state.subscribedMemberTokens[k].memberRef = m

\* some token subscribed for member m has not been unsubscribed since
Outstanding(m) ==
  \E i \in 1..Len(log) :
    /\ log[i][1] = "memberSubscribed"
    /\ log[i][2].memberRef = m
    /\ \A j \in (i + 1)..Len(log) :
         ~(log[j][1] = "memberUnsubscribed" /\ log[j][2] = log[i][2].id)

\* the subscribe events so far use pairwise distinct token ids
DistinctTokens ==
  \A i, j \in 1..Len(log) :
    (/\ i # j
     /\ log[i][1] = "memberSubscribed"
     /\ log[j][1] = "memberSubscribed")
    => log[i][2].id # log[j][2].id

\* C6: after any sequence of member-subscribed and member-unsubscribed
\* events with pairwise distinct token ids, a member is of interest iff some
\* token subscribed for it has not yet been unsubscribed.
C6_InterestIffOutstanding ==
  DistinctTokens => \A m \in MemberRefs : OfInterest(m) <=> Outstanding(m)

\* C6's case: member m subscribed under tokens a and b, a unsubscribed and m
\* still of interest through b.
C6_Witness ==
  \E m \in MemberRefs :
    /\ log = << <<"memberSubscribed", [memberRef |-> m, id |-> "a"]>>,
                <<"memberSubscribed", [memberRef |-> m, id |-> "b"]>>,
                <<"memberUnsubscribed", "a">> >>
    /\ lastType = "memberUnsubscribed"
    /\ OfInterest(m)

\* no record of the ledger before this turn carries token id
UnknownToken(id) ==
  \A k \in 1..Len(prev.subscribedMemberTokens) :
    prev.subscribedMemberTokens[k].id # id

\* C9: member-unsubscribed with a token id that matches no record is a
\* no-op, not an error: the ledger holds the same records in the same order.
C9_UnknownTokenNoOp ==
  (lastType = "memberUnsubscribed" /\ UnknownToken(lastPayload))
  => /\ state.subscribedMemberTokens = prev.subscribedMemberTokens
     /\ ret = Dispatched

\* C9's case: an unknown token is unsubscribed while the ledger holds two
\* records, before the matching subscribe has arrived.
C9_Witness ==
  /\ lastType = "memberUnsubscribed"
  /\ UnknownToken(lastPayload)
  /\ Len(prev.subscribedMemberTokens) = 2
  /\ state = prev

\* the number of records of ledger l that reference member m
RefCount(l, m) ==
  Cardinality({k \in 1..Len(l) : l[k].memberRef = m})

\* C16: in every reachable state of the subscription ledger the token ids
\* of the records are pairwise distinct, so that member-unsubscribed with a
\* known id removes exactly one record and lowers the reference count of
\* exactly one member by one.
C16_TokenIdsDistinct ==
  /\ \A i, j \in 1..Len(state.subscribedMemberTokens) :
       i # j => state.subscribedMemberTokens[i].id
                  # state.subscribedMemberTokens[j].id
  /\ (lastType = "memberUnsubscribed" /\ ~UnknownToken(lastPayload))
     => /\ Len(state.subscribedMemberTokens)
             = Len(prev.subscribedMemberTokens) - 1
        /\ \E m \in MemberRefs :
             /\ RefCount(state.subscribedMemberTokens, m)
                  = RefCount(prev.subscribedMemberTokens, m) - 1
             /\ \A m2 \in MemberRefs \ {m} :
                  RefCount(state.subscribedMemberTokens, m2)
                    = RefCount(prev.subscribedMemberTokens, m2)

----------------------------------------------------------------------------
(* The sprite channels.                                                    *)

ChannelData ==
  [a : {1, 2}, b : {2}]
  \cup [a : {1, 2}, b : {2}, displayName : DisplayNames]
ChannelPayloads == [channelNumber : ChannelNumbers, channelData : ChannelData]
DisplayNamePayloads ==
  [channelNumber : ChannelNumbers, displayName : DisplayNames]

NextChannel ==
  \/ \E p \in ChannelPayloads : ChannelChanged(p)
  \/ \E p \in DisplayNamePayloads : ChannelDisplayNameChanged(p)
  \/ TurnEnds

SpecChannel == Init /\ [][NextChannel]_vars

\* C8: channel-display-name-changed on a channel that already has an entry
\* changes only that entry's displayName: its other fields keep their values
\* and every other channel entry is unchanged.
C8_OnlyDisplayNameChanges ==
  (/\ lastType = "channelDisplayNameChanged"
   /\ lastPayload.channelNumber \in DOMAIN prev.channelSnapshots)
  => LET n == lastPayload.channelNumber
         old == prev.channelSnapshots[n]
         new == state.channelSnapshots[n]
     IN  /\ DOMAIN state.channelSnapshots = DOMAIN prev.channelSnapshots
         /\ DOMAIN new = (DOMAIN old) \cup {"displayName"}
         /\ new.displayName = lastPayload.displayName
         /\ \A f \in (DOMAIN old) \ {"displayName"} : new[f] = old[f]
         /\ \A c \in (DOMAIN prev.channelSnapshots) \ {n} :
              state.channelSnapshots[c] = prev.channelSnapshots[c]
         /\ OtherFieldsKept("channelSnapshots")

\* C8's case: the display name of an existing channel with fields a and b
\* is replaced by another one while a second channel exists.
C8_Witness ==
  /\ lastType = "channelDisplayNameChanged"
  /\ DOMAIN prev.channelSnapshots = ChannelNumbers
  /\ DOMAIN prev.channelSnapshots[lastPayload.channelNumber]
       = {"a", "b", "displayName"}
  /\ prev.channelSnapshots[lastPayload.channelNumber].displayName
       # lastPayload.displayName
  /\ state.channelSnapshots[lastPayload.channelNumber].a = 2

\* C19: channel-display-name-changed for a channel with no entry in
\* channelSnapshots creates the entry, holding only the payload's
\* displayName; every existing channel entry is unchanged and the event is
\* not rejected.
C19_UnknownChannelCreated ==
  (/\ lastType = "channelDisplayNameChanged"
   /\ lastPayload.channelNumber \notin DOMAIN prev.channelSnapshots)
  => LET n == lastPayload.channelNumber
     IN  /\ ret = Dispatched
         /\ DOMAIN state.channelSnapshots
              = (DOMAIN prev.channelSnapshots) \cup {n}
         /\ DOMAIN state.channelSnapshots[n] = {"displayName"}
         /\ state.channelSnapshots[n].displayName = lastPayload.displayName
         /\ \A c \in DOMAIN prev.channelSnapshots :
              state.channelSnapshots[c] = prev.channelSnapshots[c]
         /\ OtherFieldsKept("channelSnapshots")

\* C19's case: a display name arrives for a channel with no entry while
\* another channel has one.
C19_Witness ==
  /\ lastType = "channelDisplayNameChanged"
  /\ lastPayload.channelNumber \notin DOMAIN prev.channelSnapshots
  /\ prev.channelSnapshots # EmptyObj
  /\ lastPayload.channelNumber \in DOMAIN state.channelSnapshots

----------------------------------------------------------------------------
(* The timeout handles.                                                    *)

TimeoutPayloads == [name : TimerNames, handle : TimerHandles]

NextTimeout ==
  \/ \E p \in TimeoutPayloads : SetTimeoutHandle(p)
  \/ \E n \in TimerNames : RemoveTimeoutHandle(n)
  \/ TurnEnds

SpecTimeout == Init /\ [][NextTimeout]_vars

\* C10: timeout-handle-removed for a name that is no key of timeoutHandles
\* leaves the mapping as it was; for a name that is a key it removes exactly
\* that key and leaves every other name's handle unchanged.
C10_RemoveExactlyOne ==
  lastType = "removeTimeoutHandle"
  => /\ ret = Dispatched
     /\ DOMAIN state.timeoutHandles
          = (DOMAIN prev.timeoutHandles) \ {lastPayload}
     /\ \A n \in DOMAIN state.timeoutHandles :
          state.timeoutHandles[n] = prev.timeoutHandles[n]
     /\ lastPayload \notin DOMAIN prev.timeoutHandles
          => state.timeoutHandles = prev.timeoutHandles

\* C10's case: a name that is no key is removed while other names hold
\* handles.
C10_Witness ==
  /\ lastType = "removeTimeoutHandle"
  /\ lastPayload \notin DOMAIN prev.timeoutHandles
  /\ Cardinality(DOMAIN prev.timeoutHandles) = 2
  /\ state.timeoutHandles = prev.timeoutHandles

----------------------------------------------------------------------------
(* A debug session: every event kind, from the initial state.              *)

GlobalsMaps == UNION {[D -> {"v1"}] : D \in SUBSET GlobalNames}
ScriptInstancePayloads == [scriptInstanceId : ScriptInstanceIds, datum : Datums]

\* the payloads a session draws its events from
SessionMemberLists ==
  {q \in CastMemberListPayloads :
     /\ q.castNumber = 1
     /\ DOMAIN q.members \in {{}, {1}}
     /\ \A m \in DOMAIN q.members : DOMAIN q.members[m] = {"name"}}
SessionMembers ==
  {q \in CastMemberPayloads : q.memberRef[2] = 1 /\ q.snapshot = "s1"}
SessionScopes == {q \in ScopeLists : Len(q) <= 1}
SessionBreakpoints ==
  {q \in BreakpointLists :
     Len(q) <= 1 /\ \A k \in 1..Len(q) : q[k] = [script_name |-> "foo", line |-> 1]}
SessionTimeouts == {q \in TimeoutPayloads : q.name = "t1" /\ q.handle = "h1"}
SessionDatums == {q \in DatumPayloads : q.datum = "v1"}
SessionInstances == {q \in ScriptInstancePayloads : q.datum = "v1"}
SessionChannels ==
  {q \in ChannelPayloads :
     q.channelNumber = 1 /\ q.channelData = [a |-> 1, b |-> 2]}
SessionDisplayNames ==
  {q \in DisplayNamePayloads : q.channelNumber = 1 /\ q.displayName = "X"}
SessionSubscriptions == {q \in Subscriptions : q.id = "a"}

\* the top-level fields that have left their initial value
Touched == {f \in DOMAIN state : state[f] # initialState[f]}

\* the session is still short: few fields touched, few ledger events
InSession == Cardinality(Touched) + Len(log) < MaxSession

Next ==
  \/ \E p \in CastNameLists : InSession /\ CastListChanged(p)
  \/ \E p \in SessionMemberLists : InSession /\ CastMemberListChanged(p)
  \/ \E p \in SessionMembers : InSession /\ CastMemberChanged(p)
  \/ \E p \in ScoreSnapshots : InSession /\ ScoreChanged(p)
  \/ \E p \in Frames : InSession /\ FrameChanged(p)
  \/ \E p \in SessionScopes : InSession /\ ScopeListChanged(p)
  \/ \E p \in ErrorMessages : InSession /\ OnScriptError(p)
  \/ InSession /\ ScriptErrorCleared
  \/ \E p \in SessionBreakpoints : InSession /\ BreakpointListChanged(p)
  \/ \E p \in GlobalsMaps : InSession /\ GlobalsChanged(p)
  \/ \E p \in SessionTimeouts : InSession /\ SetTimeoutHandle(p)
  \/ \E p \in {"t1", "t2"} : InSession /\ RemoveTimeoutHandle(p)
  \/ \E p \in SessionDatums : InSession /\ DatumSnapshot(p)
  \/ \E p \in SessionInstances : InSession /\ ScriptInstanceSnapshot(p)
  \/ \E p \in SessionChannels : InSession /\ ChannelChanged(p)
  \/ \E p \in SessionDisplayNames : InSession /\ ChannelDisplayNameChanged(p)
  \/ \E p \in SessionSubscriptions : InSession /\ MemberSubscribed(p)
  \/ \E p \in {"a", "b"} : InSession /\ MemberUnsubscribed(p)
  \/ InSession /\ MovieLoaded
  \/ TurnEnds

Spec == Init /\ [][Next]_vars

\* C11: the movie-loaded flag is monotonic: false in the initial state, set
\* by movie-loaded and by nothing else, never set back to false by any event
\* kind; a second movie-loaded yields the same state as the first.
C11_MovieLoadedMonotonic ==
  /\ state.isMovieLoaded = FALSE
  /\ [][/\ state.isMovieLoaded => state'.isMovieLoaded
        /\ lastType' = "movieLoaded" => state'.isMovieLoaded
        /\ (lastType' = "movieLoaded" /\ state.isMovieLoaded)
             => state' = state
        /\ (~state.isMovieLoaded /\ state'.isMovieLoaded)
             => lastType' = "movieLoaded"]_vars

\* C11's case: movie-loaded is applied a second time, after another event
\* has touched the state in between.
C11_Witness ==
  /\ lastType = "movieLoaded"
  /\ prev.isMovieLoaded
  /\ Cardinality(Touched) > 1
  /\ state = prev

\* C12: a script error is cleared only by the explicit clear event: the
\* field changes only in a script-error-raised step, which sets it to the
\* payload's message, or in a script-error-cleared step, which always leaves
\* it absent; so once raised it stays present until cleared.
C12_ErrorClearedOnlyByClear ==
  /\ state.scriptError # prev.scriptError
       => lastType \in {"onScriptError", "scriptErrorCleared"}
  /\ lastType = "onScriptError"
       => state.scriptError = lastPayload /\ state.scriptError # Undefined
  /\ lastType = "scriptErrorCleared" => state.scriptError = Undefined
  /\ (prev.scriptError # Undefined /\ lastType # "scriptErrorCleared")
       => state.scriptError # Undefined

\* C12's case: an error that outlived an event of another kind is cleared.
C12_Witness ==
  /\ lastType = "scriptErrorCleared"
  /\ prev.scriptError \in ErrorMessages
  /\ Cardinality(Touched) > 0
  /\ state.scriptError = Undefined

\* the top-level fields an event kind writes
OwnFields(type) ==
  CASE type = "castListChanged" -> {"castNames"}
    [] type \in {"castMemberListChanged", "castMemberChanged"}
         -> {"castSnapshots"}
    [] type = "scoreChanged" -> {"scoreSnapshot"}
    [] type = "frameChanged" -> {"currentFrame"}
    [] type = "scopeListChanged" -> {"scopes", "datumSnapshots"}
    [] type \in {"onScriptError", "scriptErrorCleared"} -> {"scriptError"}
    [] type = "breakpointListChanged" -> {"breakpoints"}
    [] type = "globalsChanged" -> {"globals"}
    [] type \in {"setTimeoutHandle", "removeTimeoutHandle"}
         -> {"timeoutHandles"}
    [] type = "datumSnapshot" -> {"datumSnapshots"}
    [] type = "scriptInstanceSnapshot" -> {"scriptInstanceSnapshots"}
    [] type \in {"channelChanged", "channelDisplayNameChanged"}
         -> {"channelSnapshots"}
    [] type \in {"memberSubscribed", "memberUnsubscribed"}
         -> {"subscribedMemberTokens"}
    [] type = "movieLoaded" -> {"isMovieLoaded"}
    [] OTHER -> {}

\* C20: every event kind changes at most its own top-level field,
\* scope-list-changed at most scopes and datumSnapshots; the script-instance
\* cache is never cleared or shrunk by any event, and the ledger, globals,
\* breakpoints and timeout handles survive a scope-list-changed unchanged.
C20_EventsKeepOtherFields ==
  /\ DOMAIN state = DOMAIN prev
  /\ \A f \in (DOMAIN prev) \ OwnFields(lastType) : state[f] = prev[f]
  /\ \A i \in DOMAIN prev.scriptInstanceSnapshots :
       /\ i \in DOMAIN state.scriptInstanceSnapshots
       /\ (lastType = "scriptInstanceSnapshot"
            /\ lastPayload.scriptInstanceId = i)
          \/ state.scriptInstanceSnapshots[i] = prev.scriptInstanceSnapshots[i]
  /\ lastType = "scopeListChanged"
       => \A f \in {"subscribedMemberTokens", "globals", "breakpoints",
                    "timeoutHandles", "scriptInstanceSnapshots"} :
            state[f] = prev[f]

\* C20's case: the scope stack is replaced while the script-instance cache,
\* the datum cache and the globals hold entries.
C20_Witness ==
  /\ lastType = "scopeListChanged"
  /\ prev.scriptInstanceSnapshots # EmptyObj
  /\ prev.datumSnapshots # EmptyObj
  /\ state.datumSnapshots = EmptyObj
  /\ state.scriptInstanceSnapshots = prev.scriptInstanceSnapshots

====
